---------------------------- MODULE Spec2Model ----------------------------
(***************************************************************************)
(* State machine of the warhorse social server:                            *)
(*   warhorse_server/src/server.rs           WarhorseServer and handlers   *)
(*   warhorse_server/src/data_access.rs      DataAccess                    *)
(*   warhorse_server/src/database/db_in_memory.rs  InMemoryDatabase        *)
(*   warhorse_server/src/utils.rs            field validation              *)
(*                                                                         *)
(* Strings are sequences of one-character strings.  User ids are the       *)
(* decimal strings of the store's counter; they are modelled by the        *)
(* counter values themselves.  Socket ids are unique per connection and    *)
(* are modelled by a connection counter.                                   *)
(*                                                                         *)
(* Each action is one inbound event handled to its end: the listener, the  *)
(* WarhorseServer method it calls and every store call and emit of that    *)
(* method.  A HashMap<UserId, Vec<UserId>> is a function with the empty    *)
(* list for an absent key, which every reader of the maps treats alike.    *)
(***************************************************************************)
EXTENDS Integers, Sequences, FiniteSets, TLC

\* ------------------------------------------------------------------ bounds
MaxUsers == 2
MaxSockets == 2
MaxFriends == 1
MaxBlocks == 2
MaxCongested == 1
MaxLabels == 2

\* ------------------------------------------------- protocol constants
ACCOUNT_NAME_MAX_LENGTH == 20
ACCOUNT_NAME_MIN_LENGTH == 3
DISPLAY_NAME_MAX_LENGTH == 20
DISPLAY_NAME_MIN_LENGTH == 3
PASSWORD_MIN_LENGTH == 8
EMAIL_MAX_LENGTH == 254
LABEL_MAX_LENGTH == 63

\* Option<T>: None is the empty sequence, Some(x) the singleton.
None == <<>>
Some(x) == <<x>>

UserIds == 0 .. (MaxUsers - 1)
Sids == 1 .. MaxSockets

VARIABLES
    users,            \* InMemoryDatabase.users: id -> UserPartial
    next_user_id,     \* InMemoryDatabase.next_user_id
    friendships,      \* InMemoryDatabase.friendships: id -> Vec<UserId>
    friend_requests,  \* InMemoryDatabase.friend_requests: id -> Vec<UserId>
    user_blocks,      \* InMemoryDatabase.user_blocks: Vec<(UserId, UserId)>
    user_sockets,     \* WarhorseServer.user_sockets: HashMap<UserId, SocketId>
    connected,        \* sockets the SocketIo instance can still resolve
    next_sid,         \* number of connections accepted so far, plus one
    emitted,          \* events emitted by the last handler, in order
    last,             \* the last handler that ran: what it was asked, what it returned
    congested,        \* sockets whose outbound channel is full: socket.emit returns Err
    lock,             \* the socket whose listener holds the Mutex of the server, if any
    email_input,      \* the string is_valid_email is called with
    email_valid,      \* what is_valid_email returned for it, once it has returned
    inflight          \* per socket, the handler task that has started and not yet ended

vars == <<users, next_user_id, friendships, friend_requests, user_blocks,
          user_sockets, connected, next_sid, emitted, last, congested, lock,
          email_input, email_valid, inflight>>

store == <<users, next_user_id, friendships, friend_requests, user_blocks>>

\* ------------------------------------------------------------ strings

UpperCase == <<"A","B","C","D","E","F","G","H","I","J","K","L","M",
               "N","O","P","Q","R","S","T","U","V","W","X","Y","Z">>
LowerCase == <<"a","b","c","d","e","f","g","h","i","j","k","l","m",
               "n","o","p","q","r","s","t","u","v","w","x","y","z">>
Digits == {"0","1","2","3","4","5","6","7","8","9"}
Range(s) == {s[i] : i \in DOMAIN s}
AlphaNumeric == Range(UpperCase) \cup Range(LowerCase) \cup Digits
\* the grave accent cannot be written in a TLA+ string and is named instead
LocalPunctuation == {".","!","#","$","%","&","'","*","+","/","=","?","^","_","grave","{","|","}","~","-"}

\* char::to_lowercase on the ASCII range
to_lowercase_char(c) ==
    IF c \in Range(UpperCase)
    THEN LowerCase[CHOOSE i \in DOMAIN UpperCase : UpperCase[i] = c]
    ELSE c

\* str::to_lowercase
to_lowercase(s) == [i \in 1 .. Len(s) |-> to_lowercase_char(s[i])]

\* ------------------------------------------------------------- utils.rs
validate_password(password) == Len(password) >= PASSWORD_MIN_LENGTH

validate_account_name(account_name) ==
    /\ Len(account_name) >= ACCOUNT_NAME_MIN_LENGTH
    /\ Len(account_name) <= ACCOUNT_NAME_MAX_LENGTH

validate_display_name(display_name) ==
    /\ Len(display_name) >= DISPLAY_NAME_MIN_LENGTH
    /\ Len(display_name) <= DISPLAY_NAME_MAX_LENGTH

\* a label of any length
is_domain_label_any_length(l) ==
    /\ Len(l) >= 1
    /\ l[1] \in AlphaNumeric
    /\ l[Len(l)] \in AlphaNumeric
    /\ \A i \in 1 .. Len(l) : l[i] \in AlphaNumeric \cup {"-"}

\* [a-zA-Z0-9](?:[a-zA-Z0-9-]{0,61}[a-zA-Z0-9])?
is_domain_label(l) ==
    /\ Len(l) >= 1
    /\ Len(l) <= LABEL_MAX_LENGTH
    /\ l[1] \in AlphaNumeric
    /\ l[Len(l)] \in AlphaNumeric
    /\ \A i \in 1 .. Len(l) : l[i] \in AlphaNumeric \cup {"-"}

\* label(?:\.label)*  -- every maximal dot-free run of d is a label
is_domain(d) ==
    LET dots == {0, Len(d) + 1} \cup {i \in 1 .. Len(d) : d[i] = "."}
    IN  \A i \in dots : \A j \in dots :
            (i < j /\ \A k \in dots : ~(i < k /\ k < j))
                => is_domain_label(SubSeq(d, i + 1, j - 1))

is_valid_email(email) ==
    /\ Len(email) <= EMAIL_MAX_LENGTH
    /\ \E at \in 1 .. Len(email) :
        /\ email[at] = "@"
        /\ at > 1
        /\ \A i \in 1 .. (at - 1) : email[i] \in AlphaNumeric \cup LocalPunctuation
        /\ is_domain(SubSeq(email, at + 1, Len(email)))

\* ----------------------------------------------------- db_in_memory.rs
user_exists(user_id) == user_id \in DOMAIN users

\* users.values().find(..): the ids of the users the predicate accepts
users_get_by_account_name(account_name) ==
    {id \in DOMAIN users : users[id].account_name = account_name}

\* the email compared without regard to case
users_get_by_email_ignoring_case(email) ==
    {id \in DOMAIN users : to_lowercase(users[id].email) = to_lowercase(email)}

users_get_by_email(email) ==
    {id \in DOMAIN users : users[id].email = email}

UserPartial(id, req) ==
    [id |-> id,
     display_name |-> req.display_name,
     display_name_lower |-> to_lowercase(req.display_name),
     account_name |-> req.account_name,
     account_name_lower |-> to_lowercase(req.account_name),
     email |-> req.email]

users_insert(req) ==
    [id \in DOMAIN users \cup {next_user_id} |->
        IF id = next_user_id THEN UserPartial(next_user_id, req) ELSE users[id]]

Friend(id, status) ==
    [id |-> id, display_name |-> users[id].display_name, status |-> status]

\* iter().filter_map(users_get).map(Friend{..}) over a Vec<UserId>
RECURSIVE FriendsOf(_, _)
FriendsOf(ids, status) ==
    IF ids = <<>> THEN <<>>
    ELSE (IF user_exists(Head(ids)) THEN <<Friend(Head(ids), status)>> ELSE <<>>)
         \o FriendsOf(Tail(ids), status)

db_friends_get(user_id) ==
    FriendsOf(IF user_id \in DOMAIN friendships THEN friendships[user_id] ELSE <<>>,
              "Offline")

Contains(seq, x) == \E i \in DOMAIN seq : seq[i] = x

\* friend_requests.iter().filter_map(..): the keys whose list contains user_id,
\* in the order the HashMap iterates them; the order is unspecified but fixed
\* for an unchanged map, and is taken ascending here
RECURSIVE SendersFrom(_, _)
SendersFrom(k, user_id) ==
    IF k \notin DOMAIN friend_requests THEN <<>>
    ELSE (IF Contains(friend_requests[k], user_id) THEN <<k>> ELSE <<>>)
         \o SendersFrom(k + 1, user_id)

user_get_pending_friend_requests_for_user(user_id) ==
    FriendsOf(SendersFrom(0, user_id), "FriendRequestReceived")

\* no invite listed, whatever was sent
user_get_friend_request_invites_sent_none(user_id) ==
    <<>>

user_get_friend_request_invites_sent_for_user(user_id) ==
    FriendsOf(IF user_id \in DOMAIN friend_requests THEN friend_requests[user_id] ELSE <<>>,
              "FriendRequestSent")

RECURSIVE BlockedBy(_, _)
RECURSIVE BlockersOf(_, _)
BlockedBy(blocks, user_id) ==
    IF blocks = <<>> THEN <<>>
    ELSE (IF Head(blocks)[1] = user_id THEN <<Head(blocks)[2]>> ELSE <<>>)
         \o BlockedBy(Tail(blocks), user_id)

\* the blocks other users hold on user_id, listed by the blocked user
BlockersOf(blocks, user_id) ==
    IF blocks = <<>> THEN <<>>
    ELSE (IF Head(blocks)[2] = user_id THEN <<Head(blocks)[1]>> ELSE <<>>)
         \o BlockersOf(Tail(blocks), user_id)

user_blocks_get_blocks_on_user(user_id) ==
    FriendsOf(BlockersOf(user_blocks, user_id), "Blocked")

user_blocks_get_blocks_for_user(user_id) ==
    FriendsOf(BlockedBy(user_blocks, user_id), "Blocked")

user_is_blocked(user_id, blocked_id) ==
    \E i \in DOMAIN user_blocks : user_blocks[i] = <<user_id, blocked_id>>

\* Vec::retain(|id| id != x)
RECURSIVE Retain(_, _)
Retain(seq, x) ==
    IF seq = <<>> THEN <<>>
    ELSE (IF Head(seq) # x THEN <<Head(seq)>> ELSE <<>>) \o Retain(Tail(seq), x)

\* the mutators take the map and return the map after the call
db_friends_add(fs, user_id, friend_id) ==
    [fs EXCEPT ![user_id] = Append(@, friend_id)]

db_friends_remove(fs, user_id, friend_id) ==
    IF user_id \in DOMAIN fs
    THEN [fs EXCEPT ![user_id] = Retain(@, friend_id)]
    ELSE fs

\* the request stored under the receiver instead of the sender
db_friend_requests_insert_swapped(frs, user_id, friend_id) ==
    [frs EXCEPT ![friend_id] = Append(@, user_id)]

db_friend_requests_insert(frs, user_id, friend_id) ==
    [frs EXCEPT ![user_id] = Append(@, friend_id)]

db_friend_requests_remove(frs, user_id, friend_id) ==
    IF user_id \in DOMAIN frs
    THEN [frs EXCEPT ![user_id] = Retain(@, friend_id)]
    ELSE frs

db_user_blocks_insert(bs, user_id, blocked_id) ==
    Append(bs, <<user_id, blocked_id>>)

\* every block of the user removed, whoever it blocks
db_user_blocks_remove_all_of_user(bs, user_id, blocked_id) ==
    SelectSeq(bs, LAMBDA pair : pair[1] # user_id)

db_user_blocks_remove(bs, user_id, blocked_id) ==
    Retain(bs, <<user_id, blocked_id>>)

\* ------------------------------------------------------- data_access.rs
friends_get(user_id) ==
    db_friends_get(user_id)
        \o user_get_pending_friend_requests_for_user(user_id)
        \o user_get_friend_request_invites_sent_for_user(user_id)
        \o user_blocks_get_blocks_for_user(user_id)

\* the friendship removed and the request left in place
friends_remove_keeps_request(fs, frs, user_id, friend_id) ==
    <<db_friends_remove(fs, user_id, friend_id), frs>>

\* DataAccess::friends_remove: the pair <<friendships, friend_requests>> after it
friends_remove(fs, frs, user_id, friend_id) ==
    <<db_friends_remove(fs, user_id, friend_id),
      db_friend_requests_remove(frs, user_id, friend_id)>>

\* the block inserted and only the blocker's own side cleaned up
user_blocks_insert_one_sided(fs, frs, bs, user_id, blocked_id) ==
    LET r1 == friends_remove(fs, frs, user_id, blocked_id)
    IN  <<r1[1], r1[2], db_user_blocks_insert(bs, user_id, blocked_id)>>

\* DataAccess::user_blocks_insert: <<friendships, friend_requests, user_blocks>> after it
user_blocks_insert(fs, frs, bs, user_id, blocked_id) ==
    LET bs1 == db_user_blocks_insert(bs, user_id, blocked_id)
        r1 == friends_remove(fs, frs, user_id, blocked_id)
        r2 == friends_remove(r1[1], r1[2], blocked_id, user_id)
        q1 == db_friend_requests_remove(r2[2], user_id, blocked_id)
        q2 == db_friend_requests_remove(q1, user_id, blocked_id)
    IN  <<r2[1], q2, bs1>>

\* ------------------------------------------------------------ server.rs
get_online_status(user_id) ==
    IF user_id \in DOMAIN user_sockets THEN "Online" ELSE "Offline"

\* only the stored friendships consulted, not the requests and blocks
are_friends_stored(user_id, friend_id) ==
    \E i \in DOMAIN db_friends_get(user_id) : db_friends_get(user_id)[i].id = friend_id

are_friends(user_id, friend_id) ==
    \E i \in DOMAIN friends_get(user_id) : friends_get(user_id)[i].id = friend_id

\* presence written over every entry, whatever its status
get_friends_list_presence_for_all(user_id) ==
    LET friends_list == friends_get(user_id)
    IN  [i \in DOMAIN friends_list |->
            [friends_list[i] EXCEPT !.status = get_online_status(friends_list[i].id)]]

get_friends_list(user_id) ==
    LET friends_list == friends_get(user_id)
    IN  [i \in DOMAIN friends_list |->
            IF friends_list[i].status = "Offline"
            THEN [friends_list[i] EXCEPT !.status = get_online_status(friends_list[i].id)]
            ELSE friends_list[i]]

\* find_map over user_sockets: the users the map binds to socket_id; the
\* HashMap's iteration order decides which of them the handler acts for
get_logged_in_user_id(socket_id) ==
    {user_id \in DOMAIN user_sockets : user_sockets[user_id] = socket_id}

\* user_sockets.insert
bind(user_id, socket_id) ==
    [u \in DOMAIN user_sockets \cup {user_id} |->
        IF u = user_id THEN socket_id ELSE user_sockets[u]]

\* the socket id the map holds, whether or not the socket is still open
socket_of_stale(user_id) ==
    IF user_id \in DOMAIN user_sockets THEN Some(user_sockets[user_id]) ELSE None

\* get_socket_id followed by get_socket: the live socket of a user, if any
socket_of(user_id) ==
    IF user_id \in DOMAIN user_sockets /\ user_sockets[user_id] \in connected
    THEN Some(user_sockets[user_id])
    ELSE None

\* socket.emit where the Err is dropped (let _ =, .ok()) or only logged: a
\* socket whose channel is full gets nothing
Emit(socket, event, body) ==
    IF socket = None THEN <<>>
    ELSE IF socket[1] \in congested THEN <<>>
    ELSE <<[to |-> socket[1], event |-> event, body |-> body]>>

send_friend_list(user_id) ==
    Emit(socket_of(user_id), "/friends/receive", get_friends_list(user_id))

send_friend_requests(user_id) ==
    Emit(socket_of(user_id), "/friend_requests/receive",
         user_get_pending_friend_requests_for_user(user_id))

send_post_login_event(user_id) ==
    Emit(socket_of(user_id), "/user/login", <<>>)

\* the FriendRequests view sent before the Friends view
send_post_login_data_requests_first(user_id) ==
    send_friend_requests(user_id) \o send_friend_list(user_id)
        \o send_post_login_event(user_id)

send_post_login_data(user_id) ==
    send_friend_list(user_id) \o send_friend_requests(user_id)
        \o send_post_login_event(user_id)

\* handle_connection joins every socket to "general" and nothing else joins
\* or leaves a room; the transport drops a closed socket from its rooms
rooms(socket) == IF socket \in connected THEN {"general"} ELSE {}

room_exists(room_id) == \E socket \in Sids : room_id \in rooms(socket)

user_in_room(user_id, room_id) ==
    /\ room_exists(room_id)
    /\ socket_of(user_id) # None
    /\ room_id \in rooms(socket_of(user_id)[1])

\* io.to(room_id).emit: one event for each socket in the room, from socket k on
RECURSIVE EmitRoom(_, _, _, _)
EmitRoom(k, room_id, event, body) ==
    IF k > MaxSockets THEN <<>>
    ELSE (IF room_id \in rooms(k) THEN Emit(Some(k), event, body) ELSE <<>>)
         \o EmitRoom(k + 1, room_id, event, body)

get_room_emit(room_id, event, body) == EmitRoom(1, room_id, event, body)

\* the serialized ChatMessage; its time field is the wall clock and is left out
ChatMessage(sender_id, message) ==
    [display_name |-> users[sender_id].display_name,
     channel |-> message.channel,
     message |-> message.message]

\* ------------------------------------------------------------- inputs
alice == [account_name |-> <<"a","l","i","c","e">>,
          email |-> <<"a","@","x",".","i","o">>,
          display_name |-> <<"A","l","i","c","e">>,
          password |-> <<"p","a","s","s","w","o","r","d">>]
bob == [alice EXCEPT !.account_name = <<"b","o","b">>,
                     !.email = <<"b","@","x",".","i","o">>,
                     !.display_name = <<"B","o","b">>]
\* the account name of bob in another case, with an email of its own
Bob == [bob EXCEPT !.account_name = <<"B","o","b">>,
                   !.email = <<"B","@","x",".","i","o">>]
\* a new account name with the email of alice
carol == [alice EXCEPT !.account_name = <<"c","a","r","o","l">>]
\* a password of 7 bytes, an account name of 2, a display name of 2, no local part
shortpw == [bob EXCEPT !.password = <<"p","a","s","s","w","o","r">>]
shortname == [bob EXCEPT !.account_name = <<"b","o">>]
shortdisplay == [bob EXCEPT !.display_name = <<"B","o">>]
bademail == [bob EXCEPT !.email = <<"@","x",".","i","o">>]
\* an account name of 21 bytes and a display name of 21
longname == [bob EXCEPT !.account_name = [i \in 1..21 |-> "b"]]
longdisplay == [bob EXCEPT !.display_name = [i \in 1..21 |-> "B"]]

\* every registration and login the account handlers are tried with
Registrations ==
    {alice, bob, Bob, carol, shortpw, shortname, shortdisplay, bademail,
     longname, longdisplay}

Identities ==
    {[kind |-> "AccountName", value |-> r.account_name] : r \in {alice, bob, Bob}}
        \cup {[kind |-> "Email", value |-> r.email] : r \in {alice, bob}}

\* the chat messages a client sends
RoomIds == {"general", "lobby"}
PrivateMessage(user_id) == [kind |-> "PrivateMessage", user_id |-> user_id]
Room(room_id) == [kind |-> "Room", room_id |-> room_id]
ChatText == <<"h","i">>
SendChatMessages ==
    {[channel |-> c, message |-> ChatText] :
        c \in {PrivateMessage(u) : u \in UserIds} \cup {Room(r) : r \in RoomIds}}

\* the registrations and logins the relationship handlers are explored with:
\* two accounts, a registration that fails and a login that fails
RelRegistrations == {alice, bob, shortpw}

RelIdentities ==
    {[kind |-> "AccountName", value |-> r.account_name] : r \in {alice, bob}}
        \cup {[kind |-> "Email", value |-> Bob.email]}

\* ------------------------------------------------------------- actions
\* the task of a socket that was running its handler under the lock has run it
Ran_task(task) ==
    IF task # None /\ task[1].pc \in {"hold1", "hold2"}
    THEN Some([task[1] EXCEPT !.pc = "ran"])
    ELSE task

\* what a handler leaves of itself; the lock is the listener's to take and
\* release
Done(op, sid, user, target, res) ==
    /\ last' = [op |-> op, sid |-> sid, user |-> user, target |-> target, res |-> res]
    /\ inflight' = [inflight EXCEPT ![sid[1]] = Ran_task(@)]
    /\ UNCHANGED <<lock, email_input, email_valid>>

\* the server after WarhorseServer::new
Started ==
    /\ users = <<>>
    /\ next_user_id = 0
    /\ friendships = [u \in UserIds |-> <<>>]
    /\ friend_requests = [u \in UserIds |-> <<>>]
    /\ user_blocks = <<>>
    /\ user_sockets = <<>>
    /\ connected = {}
    /\ next_sid = 1
    /\ emitted = <<>>
    /\ last = [op |-> "new", sid |-> None, user |-> None, target |-> None, res |-> "ok"]
    /\ congested = {}
    /\ lock = None

Init ==
    /\ Started
    /\ email_input = <<>>
    /\ email_valid = None
    /\ inflight = [socket \in Sids |-> None]

\* handle_connection: the hello event; the listeners are registered
Connect ==
    /\ next_sid <= MaxSockets
    /\ connected' = connected \cup {next_sid}
    /\ next_sid' = next_sid + 1
    /\ emitted' = <<[to |-> next_sid, event |-> "hello", body |-> <<>>]>>
    /\ Done("connect", Some(next_sid), None, None, "ok")
    /\ UNCHANGED <<store, user_sockets, congested>>

\* the transport closes a socket; handle_connection registers no
\* on_disconnect callback, so no handler runs
Disconnect(socket) ==
    /\ socket \in connected
    /\ connected' = connected \ {socket}
    /\ emitted' = <<>>
    /\ Done("disconnect", Some(socket), None, None, "ok")
    /\ UNCHANGED <<store, user_sockets, next_sid, congested>>

\* listen_for_user_login and WarhorseServer::login_user
Login(socket, identity) ==
    LET user_partial == IF identity.kind = "AccountName"
                        THEN users_get_by_account_name(identity.value)
                        ELSE users_get_by_email(identity.value)
    IN  /\ socket \in connected
        /\ UNCHANGED <<store, connected, next_sid, congested>>
        /\ IF user_partial # {}
           THEN \E user \in user_partial :
                    /\ user_sockets' = bind(user, socket)
                    /\ emitted' = (send_post_login_data(user))'
                    /\ Done("login", Some(socket), Some(user), None, "ok")
           ELSE /\ UNCHANGED user_sockets
                /\ emitted' = Emit(Some(socket), "/error", "invalid_login")
                /\ Done("login", Some(socket), None, None, "invalid_login")

\* the registration checks without the one for a stored email
register_check_no_email(req) ==
    IF ~validate_password(req.password) THEN "invalid_password"
    ELSE IF ~validate_account_name(req.account_name) THEN "invalid_account_name"
    ELSE IF ~validate_display_name(req.display_name) THEN "invalid_display_name"
    ELSE IF ~is_valid_email(req.email) THEN "invalid_email"
    ELSE IF users_get_by_account_name(req.account_name) # {}
        THEN "account_name_already_exists"
    ELSE "ok"

\* the Result of WarhorseServer::register_user before the insert
register_check(req) ==
    IF ~validate_password(req.password) THEN "invalid_password"
    ELSE IF ~validate_account_name(req.account_name) THEN "invalid_account_name"
    ELSE IF ~validate_display_name(req.display_name) THEN "invalid_display_name"
    ELSE IF ~is_valid_email(req.email) THEN "invalid_email"
    ELSE IF users_get_by_account_name(req.account_name) # {}
        THEN "account_name_already_exists"
    ELSE IF users_get_by_email(req.email) # {} THEN "email_already_exists"
    ELSE "ok"

\* listen_for_user_registration and WarhorseServer::register_user
Register(socket, req) ==
    /\ socket \in connected
    /\ UNCHANGED <<friendships, friend_requests, user_blocks, connected, next_sid, congested>>
    /\ IF register_check(req) = "ok"
       THEN \E new_user_id \in {next_user_id} :
                /\ next_user_id < MaxUsers
                /\ users' = users_insert(req)
                /\ next_user_id' = next_user_id + 1
                /\ user_sockets' = bind(new_user_id, socket)
                /\ emitted' = (send_post_login_data(new_user_id))'
                /\ Done("register", Some(socket), Some(new_user_id), None, "ok")
       ELSE /\ UNCHANGED <<users, next_user_id, user_sockets>>
            /\ emitted' = Emit(Some(socket), "/error", register_check(req))
            /\ Done("register", Some(socket), None, None, register_check(req))

\* a listener that answers a socket without a user with an error event
NotLoggedIn_emits_error(op, socket, target) ==
    /\ UNCHANGED <<store, user_sockets, connected, next_sid, congested>>
    /\ emitted' = Emit(Some(socket), "/error", "not_logged_in")
    /\ Done(op, Some(socket), None, Some(target), "not_logged_in")

\* a listener that finds no logged in user for the socket only logs
NotLoggedIn(op, socket, target) ==
    /\ UNCHANGED <<store, user_sockets, connected, next_sid, congested>>
    /\ emitted' = <<>>
    /\ Done(op, Some(socket), None, Some(target), "not_logged_in")

\* a handler that returns Err and takes the binding of the user with it
Failed_unbinds(op, socket, user, target, err) ==
    /\ UNCHANGED <<store, connected, next_sid, congested>>
    /\ user_sockets' = [u \in DOMAIN user_sockets \ {user} |-> user_sockets[u]]
    /\ emitted' = <<>>
    /\ Done(op, Some(socket), Some(user), Some(target), err)

\* a handler that returns Err before it changed anything; the listener logs it
Failed(op, socket, user, target, err) ==
    /\ UNCHANGED <<store, user_sockets, connected, next_sid, congested>>
    /\ emitted' = <<>>
    /\ Done(op, Some(socket), Some(user), Some(target), err)

\* the three views emitted before the request is inserted
send_friend_request_emits_first(socket, sender_id, friend_id) ==
    IF are_friends(sender_id, friend_id)
    THEN Failed("friend_request", socket, sender_id, friend_id, "already_friends")
    ELSE IF user_is_blocked(sender_id, friend_id) \/ user_is_blocked(friend_id, sender_id)
    THEN Failed("friend_request", socket, sender_id, friend_id, "user_is_blocked")
    ELSE IF ~user_exists(friend_id)
    THEN Failed("friend_request", socket, sender_id, friend_id, "does_not_exist")
    ELSE /\ friend_requests' = db_friend_requests_insert(friend_requests, sender_id, friend_id)
         /\ UNCHANGED <<users, next_user_id, friendships, user_blocks,
                        user_sockets, connected, next_sid, congested>>
         /\ emitted' = send_friend_requests(friend_id) \o send_friend_list(sender_id)
                            \o send_friend_list(friend_id)
         /\ Done("friend_request", Some(socket), Some(sender_id), Some(friend_id), "ok")

\* WarhorseServer::send_friend_request
send_friend_request(socket, sender_id, friend_id) ==
    IF are_friends(sender_id, friend_id)
    THEN Failed("friend_request", socket, sender_id, friend_id, "already_friends")
    ELSE IF user_is_blocked(sender_id, friend_id) \/ user_is_blocked(friend_id, sender_id)
    THEN Failed("friend_request", socket, sender_id, friend_id, "user_is_blocked")
    ELSE IF ~user_exists(friend_id)
    THEN Failed("friend_request", socket, sender_id, friend_id, "does_not_exist")
    ELSE /\ friend_requests' = db_friend_requests_insert(friend_requests, sender_id, friend_id)
         /\ UNCHANGED <<users, next_user_id, friendships, user_blocks,
                        user_sockets, connected, next_sid, congested>>
         /\ emitted' = (send_friend_requests(friend_id) \o send_friend_list(sender_id)
                            \o send_friend_list(friend_id))'
         /\ Done("friend_request", Some(socket), Some(sender_id), Some(friend_id), "ok")

\* the listener without its test for a request to oneself
FriendRequest_no_self_test(socket, friend_id) ==
    /\ socket \in connected
    /\ IF get_logged_in_user_id(socket) = {}
       THEN NotLoggedIn("friend_request", socket, friend_id)
       ELSE \E sender_id \in get_logged_in_user_id(socket) :
                send_friend_request(socket, sender_id, friend_id)

\* listen_for_friend_requests
FriendRequest(socket, friend_id) ==
    /\ socket \in connected
    /\ IF get_logged_in_user_id(socket) = {}
       THEN NotLoggedIn("friend_request", socket, friend_id)
       ELSE \E sender_id \in get_logged_in_user_id(socket) :
                IF sender_id = friend_id
                THEN Failed("friend_request", socket, sender_id, friend_id, "self_ignored")
                ELSE send_friend_request(socket, sender_id, friend_id)

\* WarhorseServer::accept_friend_request
accept_friend_request(socket, user_id, friend_id) ==
    IF are_friends(user_id, friend_id)
    THEN Failed("accept", socket, user_id, friend_id, "already_friends")
    ELSE IF user_is_blocked(user_id, friend_id) \/ user_is_blocked(friend_id, user_id)
    THEN Failed("accept", socket, user_id, friend_id, "user_is_blocked")
    ELSE /\ Len(friendships[user_id]) < MaxFriends
         /\ friendships' = db_friends_add(friendships, user_id, friend_id)
         /\ UNCHANGED <<users, next_user_id, friend_requests, user_blocks,
                        user_sockets, connected, next_sid, congested>>
         /\ IF user_id \notin DOMAIN user_sockets
            THEN /\ emitted' = <<>>
                 /\ Done("accept", Some(socket), Some(user_id), Some(friend_id), "not_connected")
            ELSE IF /\ socket_of(user_id) # None
                    /\ user_exists(friend_id)
                    /\ socket_of(user_id)[1] \in congested
            THEN \* socket.emit(..)? returns the Err: the two views are not sent
                 /\ emitted' = <<>>
                 /\ Done("accept", Some(socket), Some(user_id), Some(friend_id), "emit_failed")
            ELSE /\ emitted' =
                        (IF socket_of(user_id) # None /\ user_exists(friend_id)
                         THEN Emit(socket_of(user_id), "/friend_request/accepted",
                                   Friend(friend_id, get_online_status(friend_id)))
                                \o send_friend_list(user_id) \o send_friend_list(friend_id)
                         ELSE <<>>)'
                 /\ Done("accept", Some(socket), Some(user_id), Some(friend_id), "ok")

\* WarhorseServer::reject_friend_request
reject_friend_request(socket, user_id, friend_id) ==
    /\ friend_requests' = db_friend_requests_remove(friend_requests, user_id, friend_id)
    /\ UNCHANGED <<users, next_user_id, friendships, user_blocks,
                   user_sockets, connected, next_sid, congested>>
    /\ emitted' = (send_friend_list(friend_id) \o send_friend_list(user_id))'
    /\ Done("reject", Some(socket), Some(user_id), Some(friend_id), "ok")

\* WarhorseServer::remove_friend
remove_friend(socket, user_id, friend_id) ==
    /\ friendships' = friends_remove(friendships, friend_requests, user_id, friend_id)[1]
    /\ friend_requests' = friends_remove(friendships, friend_requests, user_id, friend_id)[2]
    /\ UNCHANGED <<users, next_user_id, user_blocks, user_sockets, connected, next_sid, congested>>
    /\ emitted' = (send_friend_list(user_id) \o send_friend_list(friend_id))'
    /\ Done("remove", Some(socket), Some(user_id), Some(friend_id), "ok")

\* WarhorseServer::block_user
block_user(socket, user_id, blocked_id) ==
    LET r == friends_remove(friendships, friend_requests, user_id, blocked_id)
        b == user_blocks_insert(r[1], r[2], user_blocks, user_id, blocked_id)
    IN  /\ Len(user_blocks) < MaxBlocks
        /\ friendships' = b[1]
        /\ friend_requests' = b[2]
        /\ user_blocks' = b[3]
        /\ UNCHANGED <<users, next_user_id, user_sockets, connected, next_sid, congested>>
        /\ emitted' = (send_friend_list(user_id) \o send_friend_list(blocked_id))'
        /\ Done("block", Some(socket), Some(user_id), Some(blocked_id), "ok")

\* WarhorseServer::unblock_user
unblock_user(socket, user_id, blocked_id) ==
    /\ user_blocks' = db_user_blocks_remove(user_blocks, user_id, blocked_id)
    /\ UNCHANGED <<users, next_user_id, friendships, friend_requests,
                   user_sockets, connected, next_sid, congested>>
    /\ emitted' = (send_friend_list(user_id) \o send_friend_list(blocked_id))'
    /\ Done("unblock", Some(socket), Some(user_id), Some(blocked_id), "ok")

\* listen_for_accept_friend_requests
AcceptFriendRequest(socket, friend_id) ==
    /\ socket \in connected
    /\ IF get_logged_in_user_id(socket) = {}
       THEN NotLoggedIn("accept", socket, friend_id)
       ELSE \E user_id \in get_logged_in_user_id(socket) :
                accept_friend_request(socket, user_id, friend_id)

\* listen_for_reject_friend_requests
RejectFriendRequest(socket, friend_id) ==
    /\ socket \in connected
    /\ IF get_logged_in_user_id(socket) = {}
       THEN NotLoggedIn("reject", socket, friend_id)
       ELSE \E user_id \in get_logged_in_user_id(socket) :
                reject_friend_request(socket, user_id, friend_id)

\* listen_for_remove_friend
RemoveFriend(socket, friend_id) ==
    /\ socket \in connected
    /\ IF get_logged_in_user_id(socket) = {}
       THEN NotLoggedIn("remove", socket, friend_id)
       ELSE \E user_id \in get_logged_in_user_id(socket) :
                remove_friend(socket, user_id, friend_id)

\* listen_for_block_user_requests
BlockUser(socket, blocked_id) ==
    /\ socket \in connected
    /\ IF get_logged_in_user_id(socket) = {}
       THEN NotLoggedIn("block", socket, blocked_id)
       ELSE \E user_id \in get_logged_in_user_id(socket) :
                block_user(socket, user_id, blocked_id)

\* listen_for_unblock_user_requests
UnblockUser(socket, blocked_id) ==
    /\ socket \in connected
    /\ IF get_logged_in_user_id(socket) = {}
       THEN NotLoggedIn("unblock", socket, blocked_id)
       ELSE \E user_id \in get_logged_in_user_id(socket) :
                unblock_user(socket, user_id, blocked_id)

\* WarhorseServer::send_chat_message; the listener logs an Err and emits nothing
send_chat_message(socket, sender_id, message) ==
    LET private == message.channel.kind = "PrivateMessage"
        user_id == message.channel.user_id
        room_id == message.channel.room_id
        result ==
            IF ~user_exists(sender_id) THEN "does_not_exist"
            ELSE IF private
            THEN IF ~are_friends(sender_id, user_id) THEN "not_friends"
                 ELSE IF \/ user_is_blocked(sender_id, user_id)
                         \/ user_is_blocked(user_id, sender_id)
                 THEN "user_is_blocked"
                 ELSE IF socket_of(user_id) = None THEN "not_connected"
                 ELSE IF socket_of(user_id)[1] \in congested THEN "emit_failed"
                 ELSE "ok"
            ELSE IF ~user_in_room(sender_id, room_id) THEN "not_in_room"
            ELSE IF \E k \in congested : room_id \in rooms(k) THEN "emit_failed"
            ELSE "ok"
    IN  /\ UNCHANGED <<store, user_sockets, connected, next_sid, congested>>
        /\ emitted' =
              IF result \notin {"ok", "emit_failed"} THEN <<>>
              ELSE IF private
              THEN Emit(socket_of(user_id), "/chat/receive",
                        ChatMessage(sender_id, message))
              ELSE get_room_emit(room_id, "/chat/receive",
                                 ChatMessage(sender_id, message))
        /\ Done(IF private THEN "chat_private" ELSE "chat_room", Some(socket),
                Some(sender_id), IF private THEN Some(user_id) ELSE None, result)

\* listen_for_chat_messages
SendChatMessage(socket, message) ==
    /\ socket \in connected
    /\ IF get_logged_in_user_id(socket) = {}
       THEN /\ UNCHANGED <<store, user_sockets, connected, next_sid, congested>>
            /\ emitted' = <<>>
            /\ Done(IF message.channel.kind = "PrivateMessage"
                    THEN "chat_private" ELSE "chat_room",
                    Some(socket), None, None, "not_logged_in")
       ELSE \E sender_id \in get_logged_in_user_id(socket) :
                send_chat_message(socket, sender_id, message)

Accounts(registrations, identities) ==
    \/ Connect
    \/ \E socket \in Sids : Disconnect(socket)
    \/ \E socket \in Sids, identity \in identities : Login(socket, identity)
    \/ \E socket \in Sids, req \in registrations : Register(socket, req)

Relationships ==
    \/ \E socket \in Sids, friend_id \in UserIds : FriendRequest(socket, friend_id)
    \/ \E socket \in Sids, friend_id \in UserIds : AcceptFriendRequest(socket, friend_id)
    \/ \E socket \in Sids, friend_id \in UserIds : RejectFriendRequest(socket, friend_id)
    \/ \E socket \in Sids, friend_id \in UserIds : RemoveFriend(socket, friend_id)
    \/ \E socket \in Sids, blocked_id \in UserIds : BlockUser(socket, blocked_id)
    \/ \E socket \in Sids, blocked_id \in UserIds : UnblockUser(socket, blocked_id)

\* the server with two accounts and every relationship command
Next == Accounts(RelRegistrations, RelIdentities) \/ Relationships

Spec == Init /\ [][Next]_vars

\* the account handlers alone, with every registration and login
NextAccounts == Accounts(Registrations, Identities)

SpecAccounts == Init /\ [][NextAccounts]_vars

Chat == \E socket \in Sids, message \in SendChatMessages : SendChatMessage(socket, message)

\* the server with two accounts, every relationship command and the chat
NextChat == Next \/ Chat

SpecChat == Init /\ [][NextChat]_vars

\* the outbound channel of an open socket fills up: socket.emit to it fails
Congest(socket) ==
    /\ socket \in connected \ congested
    /\ Cardinality(congested) < MaxCongested
    /\ congested' = congested \cup {socket}
    /\ emitted' = <<>>
    /\ last' = [op |-> "congest", sid |-> Some(socket), user |-> None,
                target |-> None, res |-> "ok"]
    /\ UNCHANGED <<store, user_sockets, connected, next_sid, lock,
                   email_input, email_valid, inflight>>

\* the client reads and the channel has room again
Drain(socket) ==
    /\ socket \in congested
    /\ congested' = congested \ {socket}
    /\ emitted' = <<>>
    /\ last' = [op |-> "drain", sid |-> Some(socket), user |-> None,
                target |-> None, res |-> "ok"]
    /\ UNCHANGED <<store, user_sockets, connected, next_sid, lock,
                   email_input, email_valid, inflight>>

Congestion ==
    \/ \E socket \in Sids : Congest(socket)
    \/ \E socket \in Sids : Drain(socket)

\* the server with sockets whose channel can be full: the account handlers,
\* the friend request and accept commands and the chat
NextCongest ==
    \/ Accounts(RelRegistrations, RelIdentities)
    \/ \E socket \in Sids, friend_id \in UserIds : FriendRequest(socket, friend_id)
    \/ \E socket \in Sids, friend_id \in UserIds : AcceptFriendRequest(socket, friend_id)
    \/ Chat
    \/ Congestion

SpecCongest == Init /\ [][NextCongest]_vars

\* server.lock().await in a listener: the guard is taken when the lock is free
Acquire(socket) ==
    /\ socket \in connected
    /\ lock = None
    /\ lock' = Some(socket)
    /\ emitted' = <<>>
    /\ last' = [op |-> "lock", sid |-> Some(socket), user |-> None,
                target |-> None, res |-> "ok"]
    /\ UNCHANGED <<store, user_sockets, connected, next_sid, congested,
                   email_input, email_valid, inflight>>

\* the guard is dropped where the statement or block that took it ends, after
\* the handler has returned
Release(socket) ==
    /\ lock = Some(socket)
    /\ last.op # "lock"
    /\ lock' = None
    /\ UNCHANGED <<store, user_sockets, connected, next_sid, congested, emitted, last,
                   email_input, email_valid, inflight>>

\* the handler of the listener that has just taken the lock
Holding(socket) == lock = Some(socket) /\ last.op = "lock"

LockedLogin(socket, identity) == Holding(socket) /\ Login(socket, identity)
LockedRegister(socket, req) == Holding(socket) /\ Register(socket, req)
LockedFriendRequest(socket, friend_id) == Holding(socket) /\ FriendRequest(socket, friend_id)

\* handle_connection and the transport take no lock; they are followed here
\* only while no listener holds it
UnlockedConnect == lock = None /\ Connect
UnlockedDisconnect(socket) == lock = None /\ Disconnect(socket)

\* the listeners that take the lock once, step by step: take the lock, run
\* the handler, drop the lock
NextLock ==
    \/ UnlockedConnect
    \/ \E socket \in Sids : UnlockedDisconnect(socket)
    \/ \E socket \in Sids : Acquire(socket)
    \/ \E socket \in Sids, identity \in RelIdentities : LockedLogin(socket, identity)
    \/ \E socket \in Sids, req \in RelRegistrations : LockedRegister(socket, req)
    \/ \E socket \in Sids, friend_id \in UserIds : LockedFriendRequest(socket, friend_id)
    \/ \E socket \in Sids : Release(socket)

SpecLock == Init /\ [][NextLock]_vars

\* --------------------------------------------- the listeners step by step
\* Every inbound event runs its listener as a task of its own.  A task waits
\* for the lock, runs under it and drops it; the listeners that resolve the
\* user in one statement and call the handler in another do so twice.
OneLock == {"login", "register", "friend_request"}
TwoLocks == {"block"}

Command(op, target, identity, req) ==
    [op |-> op, target |-> target, identity |-> identity, req |-> req]

\* the events the clients send: the registration of one account, a login to
\* it, friend requests and blocks
StepCommands ==
    {Command("register", None, None, Some(alice)),
     Command("login", None, Some([kind |-> "AccountName", value |-> alice.account_name]),
             None)}
        \cup {Command(op, Some(target), None, None) :
                 op \in {"friend_request", "block"}, target \in UserIds}

Task(cmd, pc, user) == Some([cmd |-> cmd, pc |-> pc, user |-> user])

\* the tasks that have started a block and not yet ended
Blocking == {socket \in Sids : inflight[socket] # None /\ inflight[socket][1].cmd.op = "block"}

\* an event arrives on an open socket and its listener's task starts
Start(socket, cmd) ==
    /\ socket \in connected
    /\ inflight[socket] = None
    /\ cmd.op = "block" => Len(user_blocks) + Cardinality(Blocking) < MaxBlocks
    /\ inflight' = [inflight EXCEPT ![socket] = Task(cmd, "wait1", None)]
    /\ UNCHANGED <<store, user_sockets, connected, next_sid, emitted, last,
                   congested, lock, email_input, email_valid>>

\* server.lock().await returns the guard
Take(socket) ==
    /\ inflight[socket] # None
    /\ inflight[socket][1].pc \in {"wait1", "wait2"}
    /\ lock = None
    /\ lock' = Some(socket)
    /\ inflight' = [inflight EXCEPT ![socket] =
                        Some([@[1] EXCEPT !.pc = IF @ = "wait1" THEN "hold1" ELSE "hold2"])]
    /\ UNCHANGED <<store, user_sockets, connected, next_sid, emitted, last,
                   congested, email_input, email_valid>>

\* the task of `socket` holds the lock at step `pc` of a listener for `ops`
At(socket, pc, ops) ==
    /\ inflight[socket] # None
    /\ inflight[socket][1].pc = pc
    /\ inflight[socket][1].cmd.op \in ops
    /\ lock = Some(socket)

\* the guard bound to a name that lives on: the lock is kept after the user
\* is resolved
Resolve_keeps_guard(socket) ==
    /\ At(socket, "hold1", TwoLocks)
    /\ IF get_logged_in_user_id(socket) = {}
       THEN inflight' = [inflight EXCEPT ![socket] = None]
       ELSE \E user_id \in get_logged_in_user_id(socket) :
                inflight' = [inflight EXCEPT ![socket] = Task(@[1].cmd, "wait2", Some(user_id))]
    /\ UNCHANGED <<store, user_sockets, connected, next_sid, emitted, last,
                   congested, lock, email_input, email_valid>>

\* let logged_in_user_id = server.lock().await.get_logged_in_user_id(socket.id):
\* the guard is dropped where the statement ends; with no user the task logs
\* and ends
Resolve(socket) ==
    /\ At(socket, "hold1", TwoLocks)
    /\ lock' = None
    /\ IF get_logged_in_user_id(socket) = {}
       THEN inflight' = [inflight EXCEPT ![socket] = None]
       ELSE \E user_id \in get_logged_in_user_id(socket) :
                inflight' = [inflight EXCEPT ![socket] = Task(@[1].cmd, "wait2", Some(user_id))]
    /\ UNCHANGED <<store, user_sockets, connected, next_sid, emitted, last,
                   congested, email_input, email_valid>>

\* the listeners that run whole under one guard
RunLogin(socket) ==
    /\ At(socket, "hold1", {"login"})
    /\ \E identity \in {inflight[socket][1].cmd.identity[1]} : Login(socket, identity)

RunRegister(socket) ==
    /\ At(socket, "hold1", {"register"})
    /\ \E req \in {inflight[socket][1].cmd.req[1]} : Register(socket, req)

RunFriendRequest(socket) ==
    /\ At(socket, "hold1", {"friend_request"})
    /\ \E friend_id \in {inflight[socket][1].cmd.target[1]} :
          FriendRequest(socket, friend_id)

\* server.lock().await.block_user(user_id, data), for the user resolved before
Execute(socket) ==
    /\ At(socket, "hold2", {"block"})
    /\ \E user_id \in {inflight[socket][1].user[1]},
          blocked_id \in {inflight[socket][1].cmd.target[1]} :
           block_user(socket, user_id, blocked_id)

\* the guard is dropped where the statement that took it ends, and the task ends
Drop(socket) ==
    /\ inflight[socket] # None
    /\ inflight[socket][1].pc = "ran"
    /\ lock = Some(socket)
    /\ lock' = None
    /\ inflight' = [inflight EXCEPT ![socket] = None]
    /\ UNCHANGED <<store, user_sockets, connected, next_sid, emitted, last,
                   congested, email_input, email_valid>>

\* the transport closes a socket; followed here for a socket with no task
IdleDisconnect(socket) == inflight[socket] = None /\ Disconnect(socket)

\* what the task of a socket does once it has the lock
Proceed(socket) ==
    \/ Resolve(socket)
    \/ RunLogin(socket)
    \/ RunRegister(socket)
    \/ RunFriendRequest(socket)
    \/ Execute(socket)
    \/ Drop(socket)

NextSteps ==
    \/ Connect
    \/ \E socket \in Sids : IdleDisconnect(socket)
    \/ \E socket \in Sids, cmd \in StepCommands : Start(socket, cmd)
    \/ \E socket \in Sids : Take(socket)
    \/ \E socket \in Sids : Proceed(socket)

SpecSteps == Init /\ [][NextSteps]_vars

\* the tasks are scheduled and the Mutex hands the lock to its waiters in turn
Scheduling ==
    \A socket \in Sids : WF_vars(Proceed(socket)) /\ SF_vars(Take(socket))

SpecStepsFair == SpecSteps /\ Scheduling

\* ------------------------------------------------------- three accounts
\* a third account
dave == [alice EXCEPT !.account_name = <<"d","a","v","e">>,
                      !.email = <<"d","@","x",".","i","o">>,
                      !.display_name = <<"D","a","v","e">>]

ThreeAccounts == <<alice, bob, dave>>

\* the server after socket 1 registered alice and socket 2 registered bob and
\* then dave: the three are stored and bound, the later registration on
\* socket 2 having left the earlier binding in place
InitThree ==
    /\ users = [id \in {n - 1 : n \in DOMAIN ThreeAccounts} |->
                    UserPartial(id, ThreeAccounts[id + 1])]
    /\ next_user_id = Len(ThreeAccounts)
    /\ friendships = [id \in {n - 1 : n \in DOMAIN ThreeAccounts} |-> <<>>]
    /\ friend_requests = [id \in {n - 1 : n \in DOMAIN ThreeAccounts} |-> <<>>]
    /\ user_blocks = <<>>
    /\ user_sockets = [id \in {n - 1 : n \in DOMAIN ThreeAccounts} |->
                           IF id = 0 THEN 1 ELSE MaxSockets]
    /\ connected = Sids
    /\ next_sid = MaxSockets + 1
    /\ emitted = <<>>
    /\ last = [op |-> "new", sid |-> None, user |-> None, target |-> None, res |-> "ok"]
    /\ congested = {}
    /\ lock = None
    /\ email_input = <<>>
    /\ email_valid = None
    /\ inflight = [socket \in Sids |-> None]

\* the sockets that one user is bound to
OwnSockets == {socket \in Sids : Cardinality(get_logged_in_user_id(socket)) = 1}

\* friend requests of the three and every other relationship command of the
\* user that has a socket of its own, with each of the three as target
NextThree ==
    \/ \E socket \in Sids, friend_id \in DOMAIN users : FriendRequest(socket, friend_id)
    \/ \E socket \in OwnSockets, friend_id \in DOMAIN users :
           AcceptFriendRequest(socket, friend_id)
    \/ \E socket \in OwnSockets, friend_id \in DOMAIN users :
           RejectFriendRequest(socket, friend_id)
    \/ \E socket \in OwnSockets, friend_id \in DOMAIN users : RemoveFriend(socket, friend_id)
    \/ \E socket \in OwnSockets, blocked_id \in DOMAIN users : BlockUser(socket, blocked_id)
    \/ \E socket \in OwnSockets, blocked_id \in DOMAIN users : UnblockUser(socket, blocked_id)

SpecThree == InitThree /\ [][NextThree]_vars

\* ------------------------------------------- the inputs of is_valid_email
\* the string of n times the character c
Rep(c, n) == [i \in 1 .. n |-> c]

\* local parts: none, plain, with permitted punctuation, with a space, one of
\* punctuation only, one of 250 bytes
Locals ==
    {<<>>, <<"a">>, <<"a",".","b","+","c">>, <<"a"," ","b">>, <<"_">>, Rep("a", 250)}

\* domain labels: empty, plain, with a hyphen inside, at the start and at the
\* end, with an underscore, with a space, of 63 bytes and of 64
Labels ==
    {<<>>, <<"b">>, <<"c">>, <<"c","o","m">>, <<"b","-","c">>, <<"-","b">>, <<"b","-">>,
     <<"b","_","c">>, <<"b"," ">>, Rep("b", 63), Rep("b", 64)}

\* the labels joined by dots
RECURSIVE JoinLabels(_)
JoinLabels(labels) ==
    IF labels = <<>> THEN <<>>
    ELSE IF Len(labels) = 1 THEN labels[1]
    ELSE labels[1] \o <<".">> \o JoinLabels(Tail(labels))

Domains ==
    {JoinLabels(labels) : labels \in UNION {[1 .. n -> Labels] : n \in 0 .. MaxLabels}}

\* local@domain, strings without an @, strings with two, and one with two
\* dots in a row
EmailInputs ==
    {local \o <<"@">> \o domain : local \in Locals, domain \in Domains}
        \cup Locals
        \cup {<<"a","@","b","@","c">>, <<"a","@","b",".","c","@">>,
              <<"a","@","b",".",".","c","o","m">>}

\* a caller is about to validate one of the inputs
InitEmail ==
    /\ Started
    /\ email_input \in EmailInputs
    /\ email_valid = None
    /\ inflight = [socket \in Sids |-> None]

\* is_valid_email(&email) returns
CheckEmail ==
    /\ email_valid = None
    /\ email_valid' = Some(is_valid_email(email_input))
    /\ UNCHANGED <<store, user_sockets, connected, next_sid, emitted, last,
                   congested, lock, email_input, inflight>>

NextEmail == CheckEmail

SpecEmail == InitEmail /\ [][NextEmail]_vars

Friendship(a, b) == Contains(friendships[a], b)
Request(from, to) == Contains(friend_requests[from], to)
Friends(a, b) == Friendship(a, b) \/ Friendship(b, a)
Requested(a, b) == Request(a, b) \/ Request(b, a)
Blocks(a, b) == user_is_blocked(a, b) \/ user_is_blocked(b, a)

\* the handler that just ran was `op`, run for `user` with target `target`
Ran(op, user, target) ==
    /\ last.op = op
    /\ last.user = Some(user)
    /\ last.target = Some(target)

\* the entries of a Friends or FriendRequests view that are about user `id`
EntriesFor(view, id) == {i \in DOMAIN view : view[i].id = id}

\* the events of the last handler sent to `socket` under the name `event`
Sent(socket, event) ==
    {i \in DOMAIN emitted : emitted[i].to = socket /\ emitted[i].event = event}

\* ---------------------------------------------------------------- C1
\* C1: friendship is symmetric: b is in a's stored friendship list if and
\* only if a is in b's, for all registered users a and b.
FriendshipSymmetric ==
    \A a \in DOMAIN users, b \in DOMAIN users : Friendship(a, b) <=> Friendship(b, a)

\* ---------------------------------------------------------------- C2
\* C2: for every pair of registered users, a friendship (in either stored
\* direction) and a friend request (in either direction) never coexist.
FriendshipExcludesRequest ==
    \A a \in DOMAIN users, b \in DOMAIN users : ~(Friends(a, b) /\ Requested(a, b))

\* ---------------------------------------------------------------- C3
\* C3: if a block (blocker, blocked) exists then no friendship and no friend
\* request exists between blocker and blocked, in either direction.
BlockExcludesRelations ==
    \A blocker \in UserIds, blocked \in UserIds :
        user_is_blocked(blocker, blocked)
            => ~Friends(blocker, blocked) /\ ~Requested(blocker, blocked)

\* user 0 has just blocked user 1, both registered, and a Friends view was
\* sent for each of them
BlockMadeWitness ==
    /\ Ran("block", 0, 1)
    /\ last.res = "ok"
    /\ user_is_blocked(0, 1)
    /\ DOMAIN users = {0, 1}
    /\ Len(emitted) = 2

\* ---------------------------------------------------------------- C4
\* C4: no friendship, no friend request and no block relates a user to itself.
NoSelfRelation ==
    \A a \in UserIds :
        ~Friendship(a, a) /\ ~Request(a, a) /\ ~user_is_blocked(a, a)

\* ---------------------------------------------------------------- C5
\* C5: at most one session is bound to a user and at most one user is bound
\* to a session.
OneUserPerSession ==
    /\ \A socket \in Sids : Cardinality(get_logged_in_user_id(socket)) <= 1
    /\ \A user \in DOMAIN user_sockets :
            Cardinality({socket \in Sids : user_sockets[user] = socket}) <= 1

\* ---------------------------------------------------------------- C6
\* C6: no two stored users have the same lower-cased account name and no two
\* stored users have the same email.
UniqueAccounts ==
    \A a \in DOMAIN users, b \in DOMAIN users :
        a # b => /\ users[a].account_name_lower # users[b].account_name_lower
                 /\ users[a].email # users[b].email

\* ---------------------------------------------------------------- C7
\* the one status the relations of viewer v give user u
StatusOf(v, u) ==
    IF Friendship(v, u) THEN get_online_status(u)
    ELSE IF Request(v, u) THEN "FriendRequestSent"
    ELSE IF Request(u, v) THEN "FriendRequestReceived"
    ELSE "Blocked"

\* C7: the Friends view of any viewer v lists each other user at most once,
\* with the one status its relation to v gives it, and never lists v.
FriendsViewWellFormed ==
    \A v \in DOMAIN users :
        LET view == get_friends_list(v)
        IN  /\ EntriesFor(view, v) = {}
            /\ \A u \in DOMAIN users :
                    /\ Cardinality(EntriesFor(view, u)) <= 1
                    /\ \A i \in EntriesFor(view, u) : view[i].status = StatusOf(v, u)

\* ---------------------------------------------------------------- C8
\* C8: when a request (other, acceptor) exists, the two are not friends and
\* neither blocks the other, AcceptFriendRequest(acceptor, other) removes the
\* (other, acceptor) request and inserts the friendship in both directions.
AcceptCompletesRequest ==
    [][\A acceptor \in UserIds, other \in UserIds :
          (/\ Request(other, acceptor)
           /\ ~Friends(acceptor, other)
           /\ ~Blocks(acceptor, other)
           /\ Ran("accept", acceptor, other)')
          => (/\ ~Request(other, acceptor)
              /\ Friendship(acceptor, other)
              /\ Friendship(other, acceptor))']_vars

\* ---------------------------------------------------------------- C9
\* C9: AcceptFriendRequest(acceptor, other) creates a friendship only if a
\* pending request (other, acceptor) exists at that moment; with no such
\* request the command changes no friendship.
AcceptNeedsRequest ==
    [][\A acceptor \in UserIds, other \in UserIds :
          (Ran("accept", acceptor, other)' /\ ~Request(other, acceptor))
          => friendships' = friendships]_vars

\* ---------------------------------------------------------------- C10
\* what SendFriendRequest(from, to) requires of the state it is handled in
SendPrecondition(from, to) ==
    /\ user_exists(to)
    /\ from # to
    /\ ~Blocks(from, to)
    /\ ~Friends(from, to)
    /\ ~Requested(from, to)

\* the last handler sent `socket` a Friends view that lists `id` once, as `status`
SentFriendsWith(socket, id, status) ==
    \E i \in Sent(socket, "/friends/receive") :
        /\ Cardinality(EntriesFor(emitted[i].body, id)) = 1
        /\ \A j \in EntriesFor(emitted[i].body, id) : emitted[i].body[j].status = status

\* the last handler sent `socket` a FriendRequests view that lists `id`
SentRequestsWith(socket, id) ==
    \E i \in Sent(socket, "/friend_requests/receive") :
        EntriesFor(emitted[i].body, id) # {}

\* C10: when `to` exists, from # to, neither blocks the other, they are not
\* friends and no request exists between them, SendFriendRequest(from, to)
\* inserts exactly the request (from, to); the session of `to`, if any, is sent
\* a FriendRequests view containing `from` and a Friends view with `from` as
\* FriendRequestReceived, and the session of `from` is sent a Friends view
\* with `to` as FriendRequestSent.
SendInsertsRequest ==
    [][\A from \in UserIds, to \in UserIds :
          (SendPrecondition(from, to) /\ Ran("friend_request", from, to)')
          => /\ friend_requests' = [friend_requests EXCEPT ![from] = Append(@, to)]
             /\ UNCHANGED <<users, friendships, user_blocks, user_sockets>>
             /\ (/\ last.res = "ok"
                 /\ SentFriendsWith(last.sid[1], to, "FriendRequestSent")
                 /\ socket_of(to) # None
                        => /\ SentRequestsWith(socket_of(to)[1], from)
                           /\ SentFriendsWith(socket_of(to)[1], from,
                                               "FriendRequestReceived"))']_vars

\* a request was just sent from user 0 on socket 1 to user 1 on socket 2, and
\* the three views were emitted
SendRequestWitness ==
    /\ Ran("friend_request", 0, 1)
    /\ last.res = "ok"
    /\ friend_requests[0] = <<1>>
    /\ ~Friends(0, 1)
    /\ user_sockets[0] = 1
    /\ user_sockets[1] = 2
    /\ connected = {1, 2}
    /\ Len(emitted) = 3

RejectRemovesIncoming ==
    [][\A rejector \in UserIds, other \in UserIds :
          Ran("reject", rejector, other)'
          => friend_requests' = [friend_requests EXCEPT ![other] = Retain(@, rejector)]]_vars

\* ---------------------------------------------------------------- C13
\* C13: after RemoveFriend(actor, other) no friendship and no friend request
\* exists between the two in either direction, whichever of them issued it.
RemoveClearsBothDirections ==
    [][\A actor \in UserIds, other \in UserIds :
          Ran("remove", actor, other)'
          => (~Friends(actor, other) /\ ~Requested(actor, other))']_vars

\* ---------------------------------------------------------------- C14
\* C14: after BlockUser(blocker, blocked) the block (blocker, blocked) exists
\* and no friendship and no friend request exists between the two in either
\* direction.
BlockClearsRelations ==
    [][\A blocker \in UserIds, blocked \in UserIds :
          Ran("block", blocker, blocked)'
          => (/\ user_is_blocked(blocker, blocked)
              /\ ~Friends(blocker, blocked)
              /\ ~Requested(blocker, blocked))']_vars

\* user 1 on socket 2 has just blocked user 0 on socket 1; the Friends view
\* sent to the blocker lists user 0 as Blocked and the one sent to user 0 is
\* empty
BlockClearsWitness ==
    /\ Ran("block", 1, 0)
    /\ last.sid = Some(2)
    /\ DOMAIN user_sockets = {0, 1}
    /\ user_sockets[0] = 1
    /\ user_sockets[1] = 2
    /\ connected = {1, 2}
    /\ Len(user_blocks) = 1
    /\ emitted = <<[to |-> 2, event |-> "/friends/receive",
                    body |-> <<Friend(0, "Blocked")>>],
                   [to |-> 1, event |-> "/friends/receive", body |-> <<>>]>>

\* ---------------------------------------------------------------- C15
\* the pairs a list of blocks holds
BlockSet(blocks) == {blocks[i] : i \in DOMAIN blocks}

\* the blocks as they were before the block handler that ran last: block_user
\* pushed one pair at the end of the list
BlocksBeforeBlock == SubSeq(user_blocks, 1, Len(user_blocks) - 1)

\* C15: Unblock(a, b) handled right after Block(a, b) leaves the set of blocks
\* equal to what it was before the Block, also when a already blocked b, and
\* changes no friendship and no request.
BlockUnblockRestores ==
    [][\A a \in UserIds, b \in UserIds :
          (a # b /\ Ran("block", a, b) /\ Ran("unblock", a, b)')
          => /\ BlockSet(user_blocks') = BlockSet(BlocksBeforeBlock)
             /\ UNCHANGED <<friendships, friend_requests>>]_vars

\* ---------------------------------------------------------------- C16
\* C16: when the accept handler has just stored the friendship of two
\* registered users a and b that were not friends before, RemoveFriend issued
\* next by a or by b returns the stored friendships to what they were before
\* the accept: the entry the accept added is gone and nothing else changed.
AcceptThenRemoveRestores ==
    [][\A a \in DOMAIN users, b \in DOMAIN users :
          (/\ a # b
           /\ Ran("accept", a, b)
           /\ last.res = "ok"
           /\ ~Friendship(b, a)
           /\ (Ran("remove", a, b)' \/ Ran("remove", b, a)'))
          => friendships' = [friendships EXCEPT ![a] = Retain(@, b)]]_vars

\* ---------------------------------------------------------------- C17
\* how many times x occurs in seq
Count(seq, x) == Cardinality({i \in DOMAIN seq : seq[i] = x})

\* C17: SendFriendRequest(a, b) handled right after SendFriendRequest(a, b)
\* changes nothing in the store or the bindings and emits nothing, and in no
\* state is a request stored more than once for an ordered pair.
RequestAtMostOnce ==
    [][/\ \A a \in UserIds, b \in UserIds :
              (Ran("friend_request", a, b) /\ Ran("friend_request", a, b)')
              => /\ UNCHANGED <<store, user_sockets>>
                 /\ emitted' = <<>>
       /\ \A a \in UserIds, b \in UserIds : Count(friend_requests'[a], b) <= 1]_vars

\* user 0 asked for user 1 a second time: the request of 0 to 1 is the only
\* relation of the two, it is stored once, and the handler refused
RepeatedRequestWitness ==
    /\ Ran("friend_request", 0, 1)
    /\ last.res = "already_friends"
    /\ friend_requests[0] = <<1>>
    /\ ~Request(1, 0)
    /\ ~Friends(0, 1)
    /\ ~Blocks(0, 1)

\* ---------------------------------------------------------------- C18
\* C18: a private message from sender to recipient is emitted only if a
\* friendship of the two is stored (a pending request or a block entry is not
\* one) and neither blocks the other, and it is emitted to the socket bound to
\* the recipient and to no other.
PrivateMessageNeedsFriendship ==
    \A sender \in UserIds, recipient \in UserIds :
        (Ran("chat_private", sender, recipient) /\ emitted # <<>>)
        => /\ Friends(sender, recipient)
           /\ ~Blocks(sender, recipient)
           /\ \A i \in DOMAIN emitted :
                  /\ emitted[i].event = "/chat/receive"
                  /\ emitted[i].to = user_sockets[recipient]

\* ---------------------------------------------------------------- C19
\* C19: a private message to a friend who has no live socket bound emits
\* nothing, neither /chat/receive nor /error, and changes neither the store
\* nor the bindings nor the connections.
PrivateMessageOfflineSilent ==
    [][\A sender \in UserIds, recipient \in UserIds :
          (/\ Friends(sender, recipient)
           /\ (recipient \in DOMAIN user_sockets => user_sockets[recipient] \notin connected)
           /\ Ran("chat_private", sender, recipient)')
          => /\ emitted' = <<>>
             /\ UNCHANGED <<store, user_sockets, connected>>]_vars

\* user 0 has just sent a private message to its stored friend user 1, whose
\* socket is closed; the handler returned not connected and nothing was emitted
PrivateMessageOfflineWitness ==
    /\ Ran("chat_private", 0, 1)
    /\ last.res = "not_connected"
    /\ Friendship(0, 1)
    /\ 1 \in DOMAIN user_sockets
    /\ user_sockets[1] \notin connected
    /\ emitted = <<>>

\* ---------------------------------------------------------------- C20
\* C20: a room message that was sent is received by every connected socket
\* that has a user bound and by no connected socket that has none.
RoomMessageReachesAuthenticated ==
    (last.op = "chat_room" /\ last.res = "ok")
    => \A socket \in connected :
           Sent(socket, "/chat/receive") # {} <=> get_logged_in_user_id(socket) # {}

\* ---------------------------------------------------------------- C21
\* C21: a registered user u whose socket has closed (and who has not logged in
\* again on a live socket) has no entry in user_sockets, and the Friends view
\* of every user lists u, if it lists u as a friend, as Offline.
DisconnectedShownOffline ==
    \A u \in DOMAIN users :
        (u \in DOMAIN user_sockets => user_sockets[u] \notin connected)
        => /\ u \notin DOMAIN user_sockets
           /\ \A v \in DOMAIN users :
                  \A i \in EntriesFor(get_friends_list(v), u) :
                      get_friends_list(v)[i].status # "Online"

\* ---------------------------------------------------------------- C22
\* C22: when user u is bound to socket s1 and a login for u succeeds on
\* another socket s2, u is bound to s2 and no user is bound to s1 any more, so
\* a later command on s1 resolves to no user.
LoginMakesAnonymous ==
    [][\A u \in UserIds, s1 \in Sids, s2 \in Sids :
          (/\ s1 # s2
           /\ u \in get_logged_in_user_id(s1)
           /\ last'.op = "login"
           /\ last'.user = Some(u)
           /\ last'.sid = Some(s2))
          => (user_sockets[u] = s2 /\ get_logged_in_user_id(s1) = {})']_vars

\* the same when u is the one user bound to s1, and no handler acts for a
\* user that is not bound to the socket its command arrived on
LoginReplacesBinding ==
    [][/\ \A u \in UserIds, s1 \in Sids, s2 \in Sids :
              (/\ s1 # s2
               /\ get_logged_in_user_id(s1) = {u}
               /\ last'.op = "login"
               /\ last'.user = Some(u)
               /\ last'.sid = Some(s2))
              => (user_sockets[u] = s2 /\ get_logged_in_user_id(s1) = {})'
       /\ \A u \in UserIds, s \in Sids :
              (last.user = Some(u) /\ last.sid = Some(s))' => (user_sockets[u] = s)']_vars

\* ---------------------------------------------------------------- C23
\* the results a handler returns for a business failure
BusinessFailures ==
    {"invalid_login", "invalid_password", "invalid_account_name",
     "invalid_display_name", "invalid_email", "account_name_already_exists",
     "email_already_exists", "already_friends", "user_is_blocked",
     "does_not_exist", "not_friends", "not_in_room"}

\* C23: a command that failed for a business reason emitted exactly one
\* /error event, to the socket the command arrived on, and none to another.
FailureEmitsOneError ==
    last.res \in BusinessFailures
    => /\ Cardinality(Sent(last.sid[1], "/error")) = 1
       /\ \A i \in DOMAIN emitted :
              emitted[i].event = "/error" => emitted[i].to = last.sid[1]

\* ---------------------------------------------------------------- C24
\* C24: a friend request whose friend_id is the sender's own id changes
\* neither the store nor user_sockets and emits no event to any socket.
SelfRequestIgnored ==
    [][\A u \in UserIds :
          Ran("friend_request", u, u)'
          => /\ UNCHANGED <<store, user_sockets>>
             /\ emitted' = <<>>]_vars

\* user 0, registered and not related to itself in any way, has just asked
\* for itself
SelfRequestWitness ==
    /\ Ran("friend_request", 0, 0)
    /\ last.res = "self_ignored"
    /\ user_exists(0)
    /\ ~Friendship(0, 0)
    /\ ~user_is_blocked(0, 0)
    /\ emitted = <<>>

\* ---------------------------------------------------------------- C25
\* what makes a registration fail: a password shorter than 8, an account name
\* or display name with a length outside 3..20, an invalid email, or a stored
\* user with the same account name or the same email
RegistrationRefused(req) ==
    \/ Len(req.password) < 8
    \/ Len(req.account_name) \notin 3..20
    \/ Len(req.display_name) \notin 3..20
    \/ ~is_valid_email(req.email)
    \/ \E id \in DOMAIN users :
           users[id].account_name = req.account_name \/ users[id].email = req.email

\* C25: a Register step for a request that is refused leaves the users and
\* user_sockets unchanged; a Register step for any other request inserts
\* exactly one new user, with the account name and email of the request, and
\* leaves the stored users as they were.
RegisterValidates ==
    [][\A socket \in Sids, req \in Registrations :
          Register(socket, req)
          => IF RegistrationRefused(req)
             THEN UNCHANGED <<users, next_user_id, user_sockets>>
             ELSE /\ DOMAIN users' = DOMAIN users \cup {next_user_id}
                  /\ next_user_id \notin DOMAIN users
                  /\ users'[next_user_id].account_name = req.account_name
                  /\ users'[next_user_id].email = req.email
                  /\ \A id \in DOMAIN users : users'[id] = users[id]]_vars

\* a registration with the email of the one stored user was just refused
RegisterRefusedWitness ==
    /\ last.op = "register"
    /\ last.res = "email_already_exists"
    /\ DOMAIN users = {0}
    /\ Sent(last.sid[1], "/error") # {}

\* ---------------------------------------------------------------- C29
\* the place of an event in the order: accepted notifications, FriendRequests
\* views, Friends views, errors; 0 for the events the order does not name
EventRank(event) ==
    CASE event = "/friend_request/accepted" -> 1
      [] event = "/friend_requests/receive" -> 2
      [] event = "/friends/receive" -> 3
      [] event = "/error" -> 4
      [] OTHER -> 0

\* C29: of the events one command emitted to one socket, an accepted
\* notification comes before a FriendRequests view, that before a Friends
\* view, and that before an error.
EventsInOrder ==
    \A i \in DOMAIN emitted, j \in DOMAIN emitted :
        (/\ i < j
         /\ emitted[i].to = emitted[j].to
         /\ EventRank(emitted[i].event) # 0
         /\ EventRank(emitted[j].event) # 0)
        => EventRank(emitted[i].event) <= EventRank(emitted[j].event)

\* the names of the events of the last handler, in the order of emission
EventNames == [i \in DOMAIN emitted |-> emitted[i].event]

\* C29: a successful login or registration emits to its socket the Friends
\* view, then the FriendRequests view, then the login event; the events every
\* other command emits to one socket are in the order accepted notification,
\* FriendRequests view, Friends view, error.
EventsInOrderButLogin ==
    IF last.op \in {"login", "register"} /\ last.res = "ok"
    THEN /\ EventNames = <<"/friends/receive", "/friend_requests/receive", "/user/login">>
         /\ \A i \in DOMAIN emitted : emitted[i].to = last.sid[1]
    ELSE EventsInOrder

\* bob has just logged in on socket 2 and was sent a Friends view that lists
\* alice, then the FriendRequests view, then the login event
LoginOrderWitness ==
    /\ last.op = "login"
    /\ last.sid = Some(2)
    /\ Len(emitted) = 3
    /\ emitted[1].event = "/friends/receive"
    /\ emitted[1].body # <<>>
    /\ emitted[2].event = "/friend_requests/receive"
    /\ emitted[3].event = "/user/login"

\* ---------------------------------------------------------------- C30
\* C30: every view a command emitted is the view of the state the command
\* left: a Friends view sent to a socket is the friends list of a user bound
\* to it, a FriendRequests view is the pending requests of such a user, and an
\* accepted notification carries the target with its present status.
ViewsReflectFinalState ==
    \A i \in DOMAIN emitted :
        /\ emitted[i].event = "/friends/receive"
           => \E u \in DOMAIN user_sockets :
                  /\ user_sockets[u] = emitted[i].to
                  /\ emitted[i].body = get_friends_list(u)
        /\ emitted[i].event = "/friend_requests/receive"
           => \E u \in DOMAIN user_sockets :
                  /\ user_sockets[u] = emitted[i].to
                  /\ emitted[i].body = user_get_pending_friend_requests_for_user(u)
        /\ emitted[i].event = "/friend_request/accepted"
           => emitted[i].body = Friend(last.target[1], get_online_status(last.target[1]))

\* user 0 on socket 1 has just asked for user 1 on socket 2; the views sent to
\* both already hold the new request
ViewsAfterRequestWitness ==
    /\ Ran("friend_request", 0, 1)
    /\ last.res = "ok"
    /\ user_sockets[0] = 1
    /\ user_sockets[1] = 2
    /\ emitted = <<[to |-> 2, event |-> "/friend_requests/receive",
                    body |-> <<Friend(0, "FriendRequestReceived")>>],
                   [to |-> 1, event |-> "/friends/receive",
                    body |-> <<Friend(1, "FriendRequestSent")>>],
                   [to |-> 2, event |-> "/friends/receive",
                    body |-> <<Friend(0, "FriendRequestReceived")>>]>>

\* ---------------------------------------------------------------- C26
\* the relationship and chat commands
CommandOps ==
    {"friend_request", "accept", "reject", "remove", "block", "unblock",
     "chat_private", "chat_room"}

\* C26: a relationship or chat command that returned an error left the
\* friendships, the friend requests and the blocks exactly as they were.
ErrorLeavesStore ==
    [][(last'.op \in CommandOps /\ last'.res # "ok")
          => UNCHANGED <<friendships, friend_requests, user_blocks>>]_vars

\* ---------------------------------------------------------------- C27
\* the socket of `user_id` is open and its channel is full
Congested(user_id) ==
    socket_of(user_id) # None /\ socket_of(user_id)[1] \in congested

\* the socket of `user_id` is open, its channel has room, and the last handler
\* sent it a Friends view
GotFriends(user_id) ==
    /\ socket_of(user_id) # None
    /\ socket_of(user_id)[1] \notin congested
    => Sent(socket_of(user_id)[1], "/friends/receive") # {}

\* C27: an accept or a friend request that passed its tests and met a socket
\* whose channel is full still returned Ok and still sent the Friends view to
\* the other user of the pair.
FailedEmitDoesNotCascade ==
    \A user \in DOMAIN users : \A other \in DOMAIN users \ {user} :
        /\ (/\ Ran("accept", user, other)
            /\ last.res \notin {"already_friends", "user_is_blocked"}
            /\ Congested(user))
           => (last.res = "ok" /\ GotFriends(other))
        /\ (/\ Ran("friend_request", user, other)
            /\ last.res \notin {"already_friends", "user_is_blocked", "self_ignored"}
            /\ Congested(other))
           => (last.res = "ok" /\ GotFriends(user))

\* ---------------------------------------------------------------- C28
\* C28: while the listener of a socket holds the lock of the server, its
\* handler has emitted nothing.
NoEmitUnderLock ==
    (lock # None /\ last.sid = lock) => emitted = <<>>

\* ---------------------------------------------------------------- C31
\* the stored users a login identity names: those with exactly that account
\* name, or exactly that email
Matching(identity) ==
    {id \in DOMAIN users :
        IF identity.kind = "AccountName"
        THEN users[id].account_name = identity.value
        ELSE users[id].email = identity.value}

\* the last handler sent `socket` the Friends view `view` and, after it, the
\* login event
SentViewThenLogin(socket, view) ==
    \E i \in Sent(socket, "/friends/receive") :
        /\ emitted[i].body = view
        /\ \E j \in Sent(socket, "/user/login") : i < j

\* C31: a login succeeds exactly when a stored user has the account name or
\* the email it gives (UserLogin.password is never read); a successful login
\* or registration binds the socket to the user and sends it the Friends view
\* of the user, empty after a registration, and then the login event; a login
\* or registration that fails changes no binding.
LoginBindsAndSends ==
    [][/\ \A socket \in Sids, identity \in Identities \cup RelIdentities :
              (last'.op = "login" /\ last'.sid = Some(socket) /\ Login(socket, identity))
              => IF Matching(identity) # {}
                 THEN /\ last'.res = "ok"
                      /\ \E u \in Matching(identity) :
                            /\ last'.user = Some(u)
                            /\ user_sockets'[u] = socket
                            /\ SentViewThenLogin(socket, get_friends_list(u))'
                 ELSE /\ last'.res # "ok"
                      /\ UNCHANGED user_sockets
       /\ (last'.op = "register" /\ last'.res = "ok")
              => /\ user_sockets'[last'.user[1]] = last'.sid[1]
                 /\ SentViewThenLogin(last.sid[1], <<>>)'
       /\ (last'.op = "register" /\ last'.res # "ok")
              => UNCHANGED user_sockets]_vars

\* alice has just logged in on socket 2 while bob, of whom she holds a stored
\* friendship, is bound: her Friends view lists bob as Online and the login
\* event follows it
LoginSendsFriendsWitness ==
    /\ last.op = "login"
    /\ last.res = "ok"
    /\ last.user = Some(0)
    /\ last.sid = Some(2)
    /\ DOMAIN users = {0, 1}
    /\ user_sockets[0] = 2
    /\ SentViewThenLogin(2, <<Friend(1, "Online")>>)
\* ---------------------------------------------------------------- C32
\* `view` is what the store lists for viewer v, with Online on the stored
\* friends that have an entry in user_sockets, Offline on the stored friends
\* that have none, and every other status as the store gives it
PresenceOnFriendsOnly(view, v) ==
    /\ DOMAIN view = DOMAIN friends_get(v)
    /\ \A i \in DOMAIN view :
          /\ view[i].id = friends_get(v)[i].id
          /\ IF friends_get(v)[i].status = "Offline"
             THEN view[i].status = (IF view[i].id \in DOMAIN user_sockets
                                    THEN "Online" ELSE "Offline")
             ELSE view[i].status = friends_get(v)[i].status

\* C32: in every Friends view a handler emitted, the entry of a stored friend
\* u is Online if and only if user_sockets holds an entry for u, and the
\* entries with another status (request sent, request received, blocked) keep
\* that status whether or not their user is bound.
OnlineIffBound ==
    \A i \in DOMAIN emitted :
        emitted[i].event = "/friends/receive"
        => \E v \in get_logged_in_user_id(emitted[i].to) :
               PresenceOnFriendsOnly(emitted[i].body, v)

\* a Friends view was just sent that lists a bound friend as Online and, next
\* to it, a user with a request status although that user is bound as well
OnlineNextToRequestWitness ==
    \E i \in DOMAIN emitted :
        /\ emitted[i].event = "/friends/receive"
        /\ \E j \in DOMAIN emitted[i].body : emitted[i].body[j].status = "Online"
        /\ \E j \in DOMAIN emitted[i].body :
               /\ emitted[i].body[j].status \in {"FriendRequestSent", "FriendRequestReceived"}
               /\ emitted[i].body[j].id \in DOMAIN user_sockets
\* ---------------------------------------------------------------- C33
\* the last handler sent `socket` a Friends view with an entry for `id` that
\* has status `status`
SentFriendsListing(socket, id, status) ==
    \E i \in Sent(socket, "/friends/receive") :
        \E j \in EntriesFor(emitted[i].body, id) : emitted[i].body[j].status = status

\* C33: after an accept of `other` by `acceptor` that returned Ok, each with
\* a live socket of its own, the socket of the acceptor was sent the accepted event
\* naming `other`, and each of the two sockets was sent a Friends view that
\* lists the other user as Online.
AcceptRefreshesBoth ==
    \A acceptor \in DOMAIN users : \A other \in DOMAIN users \ {acceptor} :
        (/\ Ran("accept", acceptor, other)
         /\ last.res = "ok"
         /\ socket_of(acceptor) # None
         /\ socket_of(other) # None
         /\ socket_of(acceptor) # socket_of(other))
        => /\ \E i \in Sent(socket_of(acceptor)[1], "/friend_request/accepted") :
                  emitted[i].body.id = other
           /\ SentFriendsListing(socket_of(acceptor)[1], other, "Online")
           /\ SentFriendsListing(socket_of(other)[1], acceptor, "Online")
\* ---------------------------------------------------------------- C34
\* `blocker` has just blocked `blocked`, and each has a live socket of its own
BlockedWithBothConnected(blocker, blocked) ==
    /\ Ran("block", blocker, blocked)
    /\ last.res = "ok"
    /\ socket_of(blocker) # None
    /\ socket_of(blocked) # None
    /\ socket_of(blocker) # socket_of(blocked)

\* C34 as stated: after a block with both users connected each socket was
\* sent a Friends view; the one sent to the blocked user has no entry for the
\* blocker and the one sent to the blocker lists the blocked user as Blocked.
BlockRefreshesBoth ==
    \A blocker \in DOMAIN users : \A blocked \in DOMAIN users \ {blocker} :
        BlockedWithBothConnected(blocker, blocked)
        => /\ Sent(socket_of(blocked)[1], "/friends/receive") # {}
           /\ \A i \in Sent(socket_of(blocked)[1], "/friends/receive") :
                  EntriesFor(emitted[i].body, blocker) = {}
           /\ SentFriendsListing(socket_of(blocker)[1], blocked, "Blocked")

\* C34: after a block with both users connected each socket was sent a
\* Friends view; the one sent to the blocker lists the blocked user as Blocked
\* and in no other way; the one sent to the blocked user lists the blocker
\* only as Blocked, and only when the blocked user holds a block of its own on
\* the blocker.
BlockRefreshesBothButOwnBlock ==
    \A blocker \in DOMAIN users : \A blocked \in DOMAIN users \ {blocker} :
        BlockedWithBothConnected(blocker, blocked)
        => /\ Sent(socket_of(blocked)[1], "/friends/receive") # {}
           /\ \A i \in Sent(socket_of(blocked)[1], "/friends/receive") :
                  \A j \in EntriesFor(emitted[i].body, blocker) :
                      /\ emitted[i].body[j].status = "Blocked"
                      /\ user_is_blocked(blocked, blocker)
           /\ user_is_blocked(blocked, blocker)
                  => SentFriendsListing(socket_of(blocked)[1], blocker, "Blocked")
           /\ SentFriendsListing(socket_of(blocker)[1], blocked, "Blocked")
           /\ \A i \in Sent(socket_of(blocker)[1], "/friends/receive") :
                  \A j \in EntriesFor(emitted[i].body, blocked) :
                      emitted[i].body[j].status = "Blocked"

\* user 1 on socket 2 has just blocked user 0 on socket 1, who already held a
\* block on user 1: each of the two views lists the other user as Blocked
MutualBlockWitness ==
    /\ Ran("block", 1, 0)
    /\ last.res = "ok"
    /\ DOMAIN users = {0, 1}
    /\ user_blocks = <<<<0, 1>>, <<1, 0>>>>
    /\ emitted = <<[to |-> 2, event |-> "/friends/receive",
                    body |-> <<Friend(0, "Blocked")>>],
                   [to |-> 1, event |-> "/friends/receive",
                    body |-> <<Friend(1, "Blocked")>>]>>
\* ---------------------------------------------------------------- C35
\* C35: a command that failed for a business reason left user_sockets and the
\* set of open sockets as they were.
FailureKeepsSessions ==
    [][last'.res \in BusinessFailures => UNCHANGED <<user_sockets, connected>>]_vars

\* user 0, bound to the open socket its command arrived on, was just refused
\* a friend request because of a block, and is still bound to that socket
RefusedStillBoundWitness ==
    /\ Ran("friend_request", 0, 1)
    /\ last.res = "user_is_blocked"
    /\ 0 \in DOMAIN user_sockets
    /\ Some(user_sockets[0]) = last.sid
    /\ user_sockets[0] \in connected
\* ---------------------------------------------------------------- C36
\* position k of domain d starts a label, ends a label
LabelStart(d, k) == k = 1 \/ d[k - 1] = "."
LabelEnd(d, k) == k = Len(d) \/ d[k + 1] = "."

\* e is local@domain with a non-empty local part of permitted characters and a
\* domain of letters, digits, hyphens and dots in which every label starts
\* and ends with a letter or digit, and e has at most 254 bytes
EmailForm(e) ==
    /\ Len(e) <= 254
    /\ \E at \in DOMAIN e :
          /\ e[at] = "@"
          /\ at > 1
          /\ \A i \in 1 .. (at - 1) : e[i] \in AlphaNumeric \cup LocalPunctuation
          /\ at < Len(e)
          /\ LET d == SubSeq(e, at + 1, Len(e))
             IN  \A k \in DOMAIN d :
                    /\ d[k] \in AlphaNumeric \cup {"-", "."}
                    /\ (LabelStart(d, k) \/ LabelEnd(d, k)) => d[k] \in AlphaNumeric

\* no label of e has more than 63 bytes: every 64 bytes in a row after the @
\* hold a dot
LabelsAtMost63(e) ==
    \A k \in DOMAIN e :
        (k + 63 <= Len(e) /\ \E at \in 1 .. (k - 1) : e[at] = "@")
        => \E m \in k .. (k + 63) : e[m] = "."

\* the strings the claim names as rejected: an empty local part, an empty
\* domain, a dot first or last in the domain, two dots in a row, a space, more
\* than 254 bytes
NamedRejected ==
    {<<"@","b",".","c","o","m">>, <<"a","@">>, <<"a","@",".","c","o","m">>,
     <<"a","@","c","o","m",".">>, <<"a","@","b",".",".","c","o","m">>,
     <<"a"," ","b","@","b",".","c","o","m">>,
     Rep("a", 250) \o <<"@","b",".","c","o","m">>}

\* C36 as stated: is_valid_email accepts exactly the strings of the form
\* above; a@b.c is accepted and the named strings are rejected.
EmailAcceptedIffForm ==
    email_valid # None
    => /\ email_valid[1] <=> EmailForm(email_input)
       /\ email_input = <<"a","@","b",".","c">> => email_valid[1]
       /\ email_input \in NamedRejected => ~email_valid[1]

\* C36: is_valid_email accepts exactly the strings of the form above in which
\* no domain label has more than 63 bytes; a@b.c is accepted and the named
\* strings are rejected.
EmailAcceptedIffFormAndLabels ==
    email_valid # None
    => /\ email_valid[1] <=> (EmailForm(email_input) /\ LabelsAtMost63(email_input))
       /\ email_input = <<"a","@","b",".","c">> => email_valid[1]
       /\ email_input \in NamedRejected => ~email_valid[1]

\* an address whose first label has 63 bytes was checked and accepted
LongLabelAcceptedWitness ==
    /\ email_input = <<"a","@">> \o Rep("b", 63) \o <<".","c","o","m">>
    /\ email_valid = Some(TRUE)
\* ---------------------------------------------------------------- C37
\* C37: whenever a handler changes the friendships, the friend requests or
\* the blocks for user u on a command of socket s, user_sockets binds u to s
\* at that moment, whatever other sockets did since the command arrived.
MutationForBoundUser ==
    [][\A u \in UserIds, s \in Sids :
          (/\ <<friendships, friend_requests, user_blocks>>'
                  # <<friendships, friend_requests, user_blocks>>
           /\ last'.user = Some(u)
           /\ last'.sid = Some(s))
          => (u \in DOMAIN user_sockets /\ user_sockets[u] = s)]_vars

\* ---------------------------------------------------------------- C40
\* no task waits for the lock while it holds the lock itself
NoWaitWhileHolding ==
    \A socket \in Sids :
        (inflight[socket] # None /\ inflight[socket][1].pc \in {"wait1", "wait2"})
        => lock # Some(socket)

\* C40: no task ever waits for the lock while holding it, the lock is always
\* released again, and every task that has started ends, under any
\* interleaving of the tasks of the sockets.
HandlersComplete ==
    /\ []NoWaitWhileHolding
    /\ (lock # None) ~> (lock = None)
    /\ \A socket \in Sids : (inflight[socket] # None) ~> (inflight[socket] = None)

\* the task of socket 1 has resolved its user and waits for the lock a second
\* time while the task of socket 2, which has run its handler, still holds it
WaitsForOtherWitness ==
    /\ inflight[1] # None
    /\ inflight[1][1].pc = "wait2"
    /\ inflight[2] # None
    /\ inflight[2][1].pc = "ran"
    /\ lock = Some(2)
\* ---------------------------------------------------------------- C38
\* C38: a relationship or chat command that arrives on a socket to which
\* user_sockets binds no user changes neither the store nor user_sockets nor
\* the open sockets, and emits nothing.
AnonymousCommandIgnored ==
    [][\A socket \in Sids :
          (/\ last'.op \in CommandOps
           /\ last'.sid = Some(socket)
           /\ \A u \in DOMAIN user_sockets : user_sockets[u] # socket)
          => /\ UNCHANGED <<store, user_sockets, connected>>
             /\ emitted' = <<>>]_vars

\* socket 1, from which user 0 has moved to socket 2 by a later login, has
\* just sent a block command, and nothing came of it
DisplacedCommandWitness ==
    /\ last.op = "block"
    /\ last.sid = Some(1)
    /\ last.res = "not_logged_in"
    /\ DOMAIN user_sockets = {0}
    /\ user_sockets[0] = 2
    /\ user_blocks = <<>>
    /\ emitted = <<>>
\* ---------------------------------------------------------------- C39
\* the relations of the ordered pair (x, y): how often y is in the friendship
\* list of x, how often in the request list of x, how often x blocks y
Relations(x, y) ==
    <<Count(friendships[x], y), Count(friend_requests[x], y), Count(user_blocks, <<x, y>>)>>

\* C39: a relationship command of user a with target b leaves the relations
\* of every ordered pair that holds a user other than a and b as they were,
\* and leaves the users and user_sockets unchanged.
CommandTouchesOnlyItsPair ==
    [][\A a \in DOMAIN users, b \in DOMAIN users :
          (last'.op \in {"friend_request", "accept", "reject", "remove", "block", "unblock"}
           /\ last'.user = Some(a)
           /\ last'.target = Some(b))
          => /\ \A x \in DOMAIN users, y \in DOMAIN users :
                    ({x, y} \subseteq {a, b}) \/ (Relations(x, y)' = Relations(x, y))
             /\ UNCHANGED <<users, next_user_id, user_sockets>>]_vars

\* user 0 has just blocked user 1 while it holds a request to user 2 and
\* user 2 holds a request to user 1: both requests are still stored
ThirdUserKeptWitness ==
    /\ Ran("block", 0, 1)
    /\ last.res = "ok"
    /\ DOMAIN users = {0, 1, 2}
    /\ Request(0, 2)
    /\ Request(2, 1)
    /\ user_is_blocked(0, 1)
=============================================================================
